---- MODULE Spec2Model ----
(***************************************************************************)
(* The task lifecycle of the Guruwalk Agent API, in its two variants:      *)
(*   src/app.py     handlers are plain `def` (run in the framework's       *)
(*                  worker threads); every task builds its own browser     *)
(*                  session and LLM client inside _async_run_task;         *)
(*   src/server.py  handlers are `async def` (run on the event loop);      *)
(*                  the browser session and the LLM client are module      *)
(*                  level singletons built lazily by get_browser/get_llm.  *)
(* Init picks the variant.  An executor coroutine is modelled statement by *)
(* statement; `loop` is the coroutine that currently runs on the event     *)
(* loop, so that code between two awaits is not interleaved with other     *)
(* coroutines, while an await hands the loop back.                         *)
(* Optional values (Python's None or a value) are sequences of length at   *)
(* most one: <<>> is None, <<v>> is the value v.                           *)
(***************************************************************************)
EXTENDS Naturals, Sequences, FiniteSets, TLC

\* Number of task identifiers uuid4 can hand out in a run of the model.
MaxTasks == 2

TaskIds == 1..MaxTasks

None == <<>>
Some(v) == <<v>>

\* The messages an exception raised by an external call may carry; the empty
\* one is what str(asyncio.TimeoutError()) or str(Exception()) gives.
Messages == {"", "boom"}

\* The values of request.custom_task: absent, the empty string, a text.
CustomTasks == {None, Some(""), Some("go to example.com")}

\* The built-in instruction text (the literal of create_task).
default_task == "default_task"

\* What `await agent.run()` may return: no result object, a result without
\* usage metrics, a result with usage metrics, and a result whose usage
\* cannot be dumped (result.usage.model_dump() raises).
AgentResults == {"None", "NoUsage", "Usage", "BadUsage"}

\* app.py assigns what agent.run() returned to `result` and never reads it:
\* no later step depends on it, and the model keeps one representative, a
\* result that carries usage metrics.
AppAgentResults == {"Usage"}

Terminal == {"completed", "failed"}

VARIABLES
    variant,          \* "app" or "server": which file is running
    tasks,            \* the module-level dict `tasks`: id -> record
    task_text,        \* the instruction kept for the executor (app: record["task"]; server: run_task's argument)
    pc,               \* per task id: where its background executor stands
    loop,             \* the task whose coroutine holds the event loop, 0 when idle
    browser_session,  \* server.py global: 0 is None, else the name of a session
    llm_model,        \* server.py global: 0 is None, else the name of a client
    sessions,         \* the BrowserSession objects, named by the task that built them: "none" until built, then its state
    llms,             \* the ChatOpenAI objects built so far, named by the task that built them
    browser,          \* per task: the executor's local `browser` (0 unset)
    llm,              \* per task: the executor's local `llm` (0 unset)
    agent_result,     \* per task: the executor's local `result`, what agent.run() returned
    exc,              \* per task: the exception `e` its except clause caught
    issued,           \* history: the ids create_task has returned
    resp              \* the last HTTP response a handler produced (with the request's custom_task);
                      \* count is "count" of GET /tasks, "active_tasks" or "tasks_count" of GET /health

vars == <<variant, tasks, task_text, pc, loop, browser_session, llm_model,
          sessions, llms, browser, llm, agent_result, exc, issued, resp>>

execvars == <<browser_session, llm_model, sessions, llms, browser, llm,
              agent_result, exc>>

----------------------------------------------------------------------------
\* Responses

NoResponse ==
    [op |-> "none", task_id |-> 0, code |-> 0, status |-> "", result |-> None, error |-> None,
     custom_task |-> None,
     tasks |-> {}, count |-> 0, browser |-> ""]

\* The response of create_task, kept with the custom_task of the request it
\* answers.
TaskResponse(id, custom_task) ==
    [op |-> "create_task", task_id |-> id, code |-> 200, status |-> "started",
     result |-> None, error |-> None, custom_task |-> custom_task,
     tasks |-> {}, count |-> 0, browser |-> ""]

NotFound(id) ==
    [op |-> "get_task", task_id |-> id, code |-> 404, status |-> "Task not found",
     result |-> None, error |-> None, custom_task |-> None,
     tasks |-> {}, count |-> 0, browser |-> ""]

TaskStatus(id, task) ==
    [op |-> "get_task", task_id |-> id, code |-> 200, status |-> task.status,
     result |-> task.result, error |-> task.error, custom_task |-> None,
     tasks |-> {}, count |-> 0, browser |-> ""]

----------------------------------------------------------------------------
\* Exceptions

Exception(m) == [kind |-> "Exception", detail |-> m]

HTTPException(d) == [kind |-> "HTTPException", detail |-> d]

\* str(e): an HTTPException prints its status code and detail, any other
\* exception its message.
Str(e) == IF e.kind = "HTTPException" THEN "503: " \o e.detail ELSE e.detail

----------------------------------------------------------------------------
Init ==
    /\ variant \in {"app", "server"}
    /\ tasks = <<>>
    /\ task_text = [t \in TaskIds |-> ""]
    /\ pc = [t \in TaskIds |-> "none"]
    /\ loop = 0
    /\ browser_session = 0
    /\ llm_model = 0
    /\ sessions = [t \in TaskIds |-> "none"]
    /\ llms = {}
    /\ browser = [t \in TaskIds |-> 0]
    /\ llm = [t \in TaskIds |-> 0]
    /\ agent_result = [t \in TaskIds |-> "unset"]
    /\ exc = [t \in TaskIds |-> None]
    /\ issued = {}
    /\ resp = NoResponse

\* A handler of server.py is a coroutine without awaits: it runs on the event
\* loop, between two steps of the executors.  A handler of app.py is a plain
\* function: the framework runs it in a worker thread, at any moment.
HandlerMayRun == variant = "app" \/ loop = 0

----------------------------------------------------------------------------
\* POST /tasks

\* uuid4() returns an identifier no earlier call returned; identifiers are
\* opaque, so the model numbers them in the order of issue.
uuid4 == {i \in TaskIds : i = Cardinality(DOMAIN tasks) + 1}

\* A slip: the custom text is dropped.
final_task_default_only(custom_task) == default_task

final_task(custom_task) ==
    IF custom_task # None /\ custom_task[1] # "" THEN custom_task[1] ELSE default_task

\* A slip: the record gets the status of the response instead of "pending".
NewRecordStarted == [status |-> "started", result |-> None, error |-> None]

NewRecord == [status |-> "pending", result |-> None, error |-> None]

create_task(custom_task) ==
    /\ HandlerMayRun
    /\ \E task_id \in uuid4 :
          /\ tasks' = (task_id :> NewRecord) @@ tasks
          /\ task_text' = [task_text EXCEPT ![task_id] = final_task(custom_task)]
          /\ pc' = [pc EXCEPT ![task_id] = "queued"]
          /\ issued' = issued \cup {task_id}
          /\ resp' = TaskResponse(task_id, custom_task)
    /\ UNCHANGED <<variant, loop, execvars>>

\* GET /tasks/{task_id}

\* A slip: tasks.get(task_id, <default record>) instead of the membership test.
get_task_response_default(task_id) ==
    TaskStatus(task_id, IF task_id \in DOMAIN tasks THEN tasks[task_id] ELSE NewRecord)

get_task_response(task_id) ==
    IF task_id \notin DOMAIN tasks
    THEN NotFound(task_id)
    ELSE TaskStatus(task_id, tasks[task_id])

get_task(task_id) ==
    /\ HandlerMayRun
    /\ resp' = get_task_response(task_id)
    /\ UNCHANGED <<variant, tasks, task_text, pc, loop, issued, execvars>>

\* GET /tasks

\* A slip: the filter of health applied to the listing.
list_tasks_response_unfinished ==
    LET ids == {t \in DOMAIN tasks : tasks[t].status \notin Terminal} IN
    [NoResponse EXCEPT !.op = "list_tasks", !.code = 200,
                       !.tasks = ids, !.count = Cardinality(ids)]

list_tasks_response ==
    [NoResponse EXCEPT !.op = "list_tasks", !.code = 200,
                       !.tasks = DOMAIN tasks, !.count = Cardinality(DOMAIN tasks)]

list_tasks ==
    /\ HandlerMayRun
    /\ resp' = list_tasks_response
    /\ UNCHANGED <<variant, tasks, task_text, pc, loop, issued, execvars>>

\* GET /health

\* server.py line 112: "ready" if browser_session else "not_started"
health_browser == IF browser_session # 0 THEN "ready" ELSE "not_started"

\* server.py line 113: the number of records whose status is "running"
active_tasks == Cardinality({t \in DOMAIN tasks : tasks[t].status = "running"})

health_response ==
    IF variant = "server"
    THEN [NoResponse EXCEPT !.op = "health", !.code = 200, !.status = "healthy",
                            !.browser = health_browser, !.count = active_tasks]
    ELSE [NoResponse EXCEPT !.op = "health", !.code = 200, !.status = "healthy",
                            !.count = Cardinality(DOMAIN tasks)]

health ==
    /\ HandlerMayRun
    /\ resp' = health_response
    /\ UNCHANGED <<variant, tasks, task_text, pc, loop, issued, execvars>>

----------------------------------------------------------------------------
\* Helpers of the executors

\* A slip: the write goes to the record created last, not to the task's own.
SetStatusOfLatest(t, s) ==
    [tasks EXCEPT ![Cardinality(DOMAIN tasks)].status = s]

SetStatus(t, s) == [tasks EXCEPT ![t].status = s]

SetResult(t, r) == [tasks EXCEPT ![t].result = Some(r)]

SetError(t, e) == [tasks EXCEPT ![t].error = Some(Str(e))]

\* The coroutine of t runs on: it already holds the event loop.
Running(t) == loop = t

\* The coroutine of t is resumed (or started) by the event loop, which runs
\* one coroutine at a time.
Resume(t) == loop = 0 /\ loop' = t

\* The coroutine of t suspends in an await, or returns.
Yield == loop' = 0

\* resp is the response of the handler that has just returned; by any later
\* step of the program it has been delivered.
Delivered == resp' = NoResponse

Raise(t, e, next) ==
    /\ exc' = [exc EXCEPT ![t] = Some(e)]
    /\ pc' = [pc EXCEPT ![t] = next]

----------------------------------------------------------------------------
\* The framework runs the background task once the response is sent.
\* server.py registers the coroutine function run_task, which the framework
\* awaits on the event loop.

dispatch_run_task(t) ==
    /\ variant = "server"
    /\ pc[t] = "queued"
    /\ pc' = [pc EXCEPT ![t] = "start"]
    /\ UNCHANGED <<variant, tasks, task_text, loop, issued, execvars>>
    /\ Delivered

\* app.py registers the plain function run_agent_task, whose body is
\* asyncio.create_task(_async_run_task(task_id)).  create_task needs the
\* running event loop of the calling thread: called on the loop's thread it
\* schedules the coroutine; called in a worker thread (where the framework
\* runs plain functions) it raises RuntimeError and the coroutine never runs.
run_agent_task(t) ==
    /\ variant = "app"
    /\ pc[t] = "queued"
    /\ \/ pc' = [pc EXCEPT ![t] = "start"]
       \/ pc' = [pc EXCEPT ![t] = "lost"]
    /\ UNCHANGED <<variant, tasks, task_text, loop, issued, execvars>>
    /\ Delivered

----------------------------------------------------------------------------
\* server.py: get_browser and get_llm, as called by run_task

\* A slip: a session that is cached but not started yet counts as missing.
NeedsBrowserUnlessStarted ==
    IF browser_session = 0 THEN TRUE ELSE sessions[browser_session] # "started"

NeedsBrowser == browser_session = 0

NeedsLlm == llm_model = 0

\* line 171: tasks[task_id]["status"] = "running"
run_task_running(t) ==
    /\ variant = "server"
    /\ pc[t] = "start"
    /\ Resume(t)
    /\ tasks' = SetStatus(t, "running")
    /\ pc' = [pc EXCEPT ![t] = "get_browser"]
    /\ UNCHANGED <<variant, task_text, issued, execvars>>
    /\ Delivered

\* lines 55, 88: the singleton is set, return it
get_browser_cached(t) ==
    /\ variant = "server"
    /\ pc[t] = "get_browser"
    /\ Running(t)
    /\ ~NeedsBrowser
    /\ browser' = [browser EXCEPT ![t] = browser_session]
    /\ pc' = [pc EXCEPT ![t] = "get_llm"]
    /\ UNCHANGED <<variant, tasks, task_text, loop, issued,
                   browser_session, llm_model, sessions, llms, llm, agent_result, exc>>
    /\ Delivered

\* lines 55-79: build the session, cache it, and suspend in its start()
get_browser_construct(t) ==
    /\ variant = "server"
    /\ pc[t] = "get_browser"
    /\ Running(t)
    /\ NeedsBrowser
    /\ sessions' = [sessions EXCEPT ![t] = "starting"]
    /\ browser_session' = t
    /\ pc' = [pc EXCEPT ![t] = "browser_start"]
    /\ Yield
    /\ UNCHANGED <<variant, tasks, task_text, issued,
                   llm_model, llms, browser, llm, agent_result, exc>>
    /\ Delivered

\* lines 79-80, 88: start() returned in time
get_browser_started(t) ==
    /\ variant = "server"
    /\ pc[t] = "browser_start"
    /\ Resume(t)
    /\ sessions' = [sessions EXCEPT ![browser_session] = "started"]
    /\ browser' = [browser EXCEPT ![t] = browser_session]
    /\ pc' = [pc EXCEPT ![t] = "get_llm"]
    /\ UNCHANGED <<variant, tasks, task_text, issued,
                   browser_session, llm_model, llms, llm, agent_result, exc>>
    /\ Delivered

\* lines 81-83: start() exceeded the 60 s of asyncio.wait_for
get_browser_timeout(t) ==
    /\ variant = "server"
    /\ pc[t] = "browser_start"
    /\ Resume(t)
    /\ sessions' = [sessions EXCEPT ![browser_session] = "failed"]
    /\ Raise(t, HTTPException("Browser startup timeout"), "except")
    /\ UNCHANGED <<variant, tasks, task_text, issued,
                   browser_session, llm_model, llms, browser, llm, agent_result>>
    /\ Delivered

\* lines 84-86: start() raised
get_browser_raises(t) ==
    /\ variant = "server"
    /\ pc[t] = "browser_start"
    /\ Resume(t)
    /\ sessions' = [sessions EXCEPT ![browser_session] = "failed"]
    /\ \E m \in Messages :
          Raise(t, HTTPException("Browser unavailable: " \o Str(Exception(m))), "except")
    /\ UNCHANGED <<variant, tasks, task_text, issued,
                   browser_session, llm_model, llms, browser, llm, agent_result>>
    /\ Delivered

\* lines 92, 97, then 179-182: the client is set; build the agent and suspend
\* in agent.run()
get_llm_cached(t) ==
    /\ variant = "server"
    /\ pc[t] = "get_llm"
    /\ Running(t)
    /\ ~NeedsLlm
    /\ llm' = [llm EXCEPT ![t] = llm_model]
    /\ pc' = [pc EXCEPT ![t] = "agent_run"]
    /\ Yield
    /\ UNCHANGED <<variant, tasks, task_text, issued,
                   browser_session, llm_model, sessions, llms, browser, agent_result, exc>>
    /\ Delivered

\* lines 92-97, then 179-182: build the client and cache it
get_llm_construct(t) ==
    /\ variant = "server"
    /\ pc[t] = "get_llm"
    /\ Running(t)
    /\ NeedsLlm
    /\ llms' = llms \cup {t}
    /\ llm_model' = t
    /\ llm' = [llm EXCEPT ![t] = t]
    /\ pc' = [pc EXCEPT ![t] = "agent_run"]
    /\ Yield
    /\ UNCHANGED <<variant, tasks, task_text, issued,
                   browser_session, sessions, browser, agent_result, exc>>
    /\ Delivered

\* line 94: ChatOpenAI(...) raises
get_llm_raises(t) ==
    /\ variant = "server"
    /\ pc[t] = "get_llm"
    /\ Running(t)
    /\ NeedsLlm
    /\ \E m \in Messages : Raise(t, Exception(m), "except")
    /\ UNCHANGED <<variant, tasks, task_text, loop, issued,
                   browser_session, llm_model, sessions, llms, browser, llm, agent_result>>
    /\ Delivered

----------------------------------------------------------------------------
\* server.py: run_task

\* line 182: agent.run() returns
run_task_agent_returns(t) ==
    /\ variant = "server"
    /\ pc[t] = "agent_run"
    /\ Resume(t)
    /\ \E r \in AgentResults : agent_result' = [agent_result EXCEPT ![t] = r]
    /\ pc' = [pc EXCEPT ![t] = "save_status"]
    /\ UNCHANGED <<variant, tasks, task_text, issued,
                   browser_session, llm_model, sessions, llms, browser, llm, exc>>
    /\ Delivered

\* line 182: agent.run() raises
run_task_agent_raises(t) ==
    /\ variant = "server"
    /\ pc[t] = "agent_run"
    /\ Resume(t)
    /\ \E m \in Messages : Raise(t, Exception(m), "except")
    /\ UNCHANGED <<variant, tasks, task_text, issued,
                   browser_session, llm_model, sessions, llms, browser, llm, agent_result>>
    /\ Delivered

\* line 185: tasks[task_id]["status"] = "completed"
run_task_completed(t) ==
    /\ variant = "server"
    /\ pc[t] = "save_status"
    /\ Running(t)
    /\ tasks' = SetStatus(t, "completed")
    /\ pc' = [pc EXCEPT ![t] = "save_result"]
    /\ UNCHANGED <<variant, task_text, loop, issued, execvars>>
    /\ Delivered

\* line 188: result.usage.model_dump() if result and result.usage else None
usage(r) == IF r = "Usage" THEN Some("metrics") ELSE None

\* lines 186-191: the result dict is built and stored
run_task_result(t) ==
    /\ variant = "server"
    /\ pc[t] = "save_result"
    /\ Running(t)
    /\ agent_result[t] # "BadUsage"
    /\ tasks' = SetResult(t, [success |-> TRUE, usage |-> usage(agent_result[t])])
    /\ pc' = [pc EXCEPT ![t] = "done"]
    /\ Yield
    /\ UNCHANGED <<variant, task_text, issued, execvars>>
    /\ Delivered

\* line 188: building the dict raises
run_task_result_raises(t) ==
    /\ variant = "server"
    /\ pc[t] = "save_result"
    /\ Running(t)
    /\ agent_result[t] = "BadUsage"
    /\ \E m \in Messages : Raise(t, Exception(m), "except")
    /\ UNCHANGED <<variant, tasks, task_text, loop, issued,
                   browser_session, llm_model, sessions, llms, browser, llm, agent_result>>
    /\ Delivered

\* line 195: tasks[task_id]["status"] = "failed"
run_task_failed(t) ==
    /\ variant = "server"
    /\ pc[t] = "except"
    /\ Running(t)
    /\ tasks' = SetStatus(t, "failed")
    /\ pc' = [pc EXCEPT ![t] = "except_error"]
    /\ UNCHANGED <<variant, task_text, loop, issued, execvars>>
    /\ Delivered

\* line 196: tasks[task_id]["error"] = str(e)
run_task_error(t) ==
    /\ variant = "server"
    /\ pc[t] = "except_error"
    /\ Running(t)
    /\ tasks' = SetError(t, exc[t][1])
    /\ pc' = [pc EXCEPT ![t] = "done"]
    /\ Yield
    /\ UNCHANGED <<variant, task_text, issued, execvars>>
    /\ Delivered

run_task(t) ==
    \/ run_task_running(t)
    \/ get_browser_cached(t)
    \/ get_browser_construct(t)
    \/ get_browser_started(t)
    \/ get_browser_timeout(t)
    \/ get_browser_raises(t)
    \/ get_llm_cached(t)
    \/ get_llm_construct(t)
    \/ get_llm_raises(t)
    \/ run_task_agent_returns(t)
    \/ run_task_agent_raises(t)
    \/ run_task_completed(t)
    \/ run_task_result(t)
    \/ run_task_result_raises(t)
    \/ run_task_failed(t)
    \/ run_task_error(t)

----------------------------------------------------------------------------
\* app.py: _async_run_task

\* line 118: tasks[task_id]["status"] = "running"
async_run_task_running(t) ==
    /\ variant = "app"
    /\ pc[t] = "start"
    /\ Resume(t)
    /\ tasks' = SetStatus(t, "running")
    /\ pc' = [pc EXCEPT ![t] = "browser_new"]
    /\ UNCHANGED <<variant, task_text, issued, execvars>>
    /\ Delivered

\* lines 126-139: build this task's own session and suspend in its start()
async_run_task_browser(t) ==
    /\ variant = "app"
    /\ pc[t] = "browser_new"
    /\ Running(t)
    /\ sessions' = [sessions EXCEPT ![t] = "starting"]
    /\ browser' = [browser EXCEPT ![t] = t]
    /\ pc' = [pc EXCEPT ![t] = "browser_start"]
    /\ Yield
    /\ UNCHANGED <<variant, tasks, task_text, issued,
                   browser_session, llm_model, llms, llm, agent_result, exc>>
    /\ Delivered

\* line 139: start() returned
async_run_task_started(t) ==
    /\ variant = "app"
    /\ pc[t] = "browser_start"
    /\ Resume(t)
    /\ sessions' = [sessions EXCEPT ![browser[t]] = "started"]
    /\ pc' = [pc EXCEPT ![t] = "llm_new"]
    /\ UNCHANGED <<variant, tasks, task_text, issued,
                   browser_session, llm_model, llms, browser, llm, agent_result, exc>>
    /\ Delivered

\* line 139: start() raised
async_run_task_start_raises(t) ==
    /\ variant = "app"
    /\ pc[t] = "browser_start"
    /\ Resume(t)
    /\ sessions' = [sessions EXCEPT ![browser[t]] = "failed"]
    /\ \E m \in Messages : Raise(t, Exception(m), "except")
    /\ UNCHANGED <<variant, tasks, task_text, issued,
                   browser_session, llm_model, llms, browser, llm, agent_result>>
    /\ Delivered

\* lines 142-146: build this task's client and agent, suspend in agent.run()
async_run_task_llm(t) ==
    /\ variant = "app"
    /\ pc[t] = "llm_new"
    /\ Running(t)
    /\ llms' = llms \cup {t}
    /\ llm' = [llm EXCEPT ![t] = t]
    /\ pc' = [pc EXCEPT ![t] = "agent_run"]
    /\ Yield
    /\ UNCHANGED <<variant, tasks, task_text, issued,
                   browser_session, llm_model, sessions, browser, agent_result, exc>>
    /\ Delivered

\* line 142: ChatOpenAI(...) raises
async_run_task_llm_raises(t) ==
    /\ variant = "app"
    /\ pc[t] = "llm_new"
    /\ Running(t)
    /\ \E m \in Messages : Raise(t, Exception(m), "except")
    /\ UNCHANGED <<variant, tasks, task_text, loop, issued,
                   browser_session, llm_model, sessions, llms, browser, llm, agent_result>>
    /\ Delivered

\* line 146: result = await agent.run(); app.py never reads result afterwards
async_run_task_agent_returns(t) ==
    /\ variant = "app"
    /\ pc[t] = "agent_run"
    /\ Resume(t)
    /\ \E r \in AppAgentResults : agent_result' = [agent_result EXCEPT ![t] = r]
    /\ pc' = [pc EXCEPT ![t] = "save_status"]
    /\ UNCHANGED <<variant, tasks, task_text, issued,
                   browser_session, llm_model, sessions, llms, browser, llm, exc>>
    /\ Delivered

\* line 146: agent.run() raises
async_run_task_agent_raises(t) ==
    /\ variant = "app"
    /\ pc[t] = "agent_run"
    /\ Resume(t)
    /\ \E m \in Messages : Raise(t, Exception(m), "except")
    /\ UNCHANGED <<variant, tasks, task_text, issued,
                   browser_session, llm_model, sessions, llms, browser, llm, agent_result>>
    /\ Delivered

\* line 149: tasks[task_id]["status"] = "completed"
async_run_task_completed(t) ==
    /\ variant = "app"
    /\ pc[t] = "save_status"
    /\ Running(t)
    /\ tasks' = SetStatus(t, "completed")
    /\ pc' = [pc EXCEPT ![t] = "save_result"]
    /\ UNCHANGED <<variant, task_text, loop, issued, execvars>>
    /\ Delivered

\* lines 150-155: tasks[task_id]["result"] = {"success": True}, then suspend
\* in browser.close()
async_run_task_result(t) ==
    /\ variant = "app"
    /\ pc[t] = "save_result"
    /\ Running(t)
    /\ tasks' = SetResult(t, [success |-> TRUE])
    /\ pc' = [pc EXCEPT ![t] = "browser_close"]
    /\ Yield
    /\ UNCHANGED <<variant, task_text, issued, execvars>>
    /\ Delivered

\* line 155: close() returned; the coroutine returns
async_run_task_closed(t) ==
    /\ variant = "app"
    /\ pc[t] = "browser_close"
    /\ loop = 0
    /\ sessions' = [sessions EXCEPT ![browser[t]] = "closed"]
    /\ pc' = [pc EXCEPT ![t] = "done"]
    /\ UNCHANGED <<variant, tasks, task_text, loop, issued,
                   browser_session, llm_model, llms, browser, llm, agent_result, exc>>
    /\ Delivered

\* line 155: close() raised
async_run_task_close_raises(t) ==
    /\ variant = "app"
    /\ pc[t] = "browser_close"
    /\ Resume(t)
    /\ \E m \in Messages : Raise(t, Exception(m), "except")
    /\ UNCHANGED <<variant, tasks, task_text, issued,
                   browser_session, llm_model, sessions, llms, browser, llm, agent_result>>
    /\ Delivered

\* line 159: tasks[task_id]["status"] = "failed"
async_run_task_failed(t) ==
    /\ variant = "app"
    /\ pc[t] = "except"
    /\ Running(t)
    /\ tasks' = SetStatus(t, "failed")
    /\ pc' = [pc EXCEPT ![t] = "except_error"]
    /\ UNCHANGED <<variant, task_text, loop, issued, execvars>>
    /\ Delivered

\* line 160: tasks[task_id]["error"] = str(e)
async_run_task_error(t) ==
    /\ variant = "app"
    /\ pc[t] = "except_error"
    /\ Running(t)
    /\ tasks' = SetError(t, exc[t][1])
    /\ pc' = [pc EXCEPT ![t] = "done"]
    /\ Yield
    /\ UNCHANGED <<variant, task_text, issued, execvars>>
    /\ Delivered

async_run_task(t) ==
    \/ async_run_task_running(t)
    \/ async_run_task_browser(t)
    \/ async_run_task_started(t)
    \/ async_run_task_start_raises(t)
    \/ async_run_task_llm(t)
    \/ async_run_task_llm_raises(t)
    \/ async_run_task_agent_returns(t)
    \/ async_run_task_agent_raises(t)
    \/ async_run_task_completed(t)
    \/ async_run_task_result(t)
    \/ async_run_task_closed(t)
    \/ async_run_task_close_raises(t)
    \/ async_run_task_failed(t)
    \/ async_run_task_error(t)

----------------------------------------------------------------------------
Next ==
    \/ \E c \in CustomTasks : create_task(c)
    \/ \E t \in TaskIds : get_task(t)
    \/ list_tasks
    \/ health
    \/ \E t \in TaskIds : dispatch_run_task(t)
    \/ \E t \in TaskIds : run_agent_task(t)
    \/ \E t \in TaskIds : run_task(t)
    \/ \E t \in TaskIds : async_run_task(t)

Spec == Init /\ [][Next]_vars

\* The framework runs every registered background task once the response is
\* sent, and the event loop runs every coroutine that is ready (its ready
\* queue is first in, first out); every external call that was awaited
\* returns or raises.  Requests of clients are not forced to happen.
Fairness ==
    \A t \in TaskIds :
        /\ WF_vars(dispatch_run_task(t))
        /\ WF_vars(run_agent_task(t))
        /\ SF_vars(run_task(t))
        /\ SF_vars(async_run_task(t))

FairSpec == Init /\ [][Next]_vars /\ Fairness

----------------------------------------------------------------------------
\* Notions the properties share

Created(t) == t \in DOMAIN tasks

Finished(t) == pc[t] = "done"

\* The executor of t is suspended in `await agent.run()`.
InAgentRun(t) == pc[t] = "agent_run"

----------------------------------------------------------------------------
\* C1: once a record's status is completed or failed, no later step changes
\* its status, nor a result or error that has been written, and nothing of the
\* record changes once its executor has returned; in particular no record
\* goes from completed to failed.  (The status and its result or error are
\* written by two statements: the second one completes the terminal update.)
C1_TerminalRecordsAreFrozen ==
    [][\A t \in DOMAIN tasks :
          tasks[t].status \in Terminal =>
             /\ tasks'[t].status = tasks[t].status
             /\ tasks[t].result # None => tasks'[t].result = tasks[t].result
             /\ tasks[t].error # None => tasks'[t].error = tasks[t].error
             /\ Finished(t) => tasks'[t] = tasks[t]]_vars

\* C2: while a record is pending or running its result and error are both
\* null; once its executor has finished exactly one is set: completed has a
\* result and no error, failed has an error and no result.
C2_ResultXorError ==
    \A t \in DOMAIN tasks :
        /\ tasks[t].status \in {"pending", "running"} =>
              tasks[t].result = None /\ tasks[t].error = None
        /\ Finished(t) =>
              \/ /\ tasks[t].status = "completed"
                 /\ tasks[t].result # None
                 /\ tasks[t].error = None
              \/ /\ tasks[t].status = "failed"
                 /\ tasks[t].error # None
                 /\ tasks[t].result = None

\* C3: no two tasks are suspended in `await agent.run()` at the same time with
\* the same browser session.
C3_AgentRunsDoNotShareASession ==
    \A t1, t2 \in TaskIds :
        (t1 # t2 /\ InAgentRun(t1) /\ InAgentRun(t2)) => browser[t1] # browser[t2]

\* C4: in server.py a browser session whose start failed or timed out is not
\* left cached in browser_session (so that the next get_browser() call builds
\* and starts a fresh one).
C4_NoFailedSessionCached ==
    (variant = "server" /\ browser_session # 0) => sessions[browser_session] # "failed"

\* C6: whenever resource acquisition or the agent run raised during a task's
\* execution, the finished record is failed with a non-empty error equal to
\* the stringified exception; a finished executor never leaves its record
\* running (or pending).
C6_FailuresAreRecorded ==
    \A t \in DOMAIN tasks :
        /\ (Finished(t) /\ exc[t] # None) =>
              /\ tasks[t].status = "failed"
              /\ tasks[t].error = Some(Str(exc[t][1]))
              /\ tasks[t].error[1] # ""
        /\ Finished(t) => tasks[t].status \in Terminal

\* C7: under fair scheduling every record created by a submission eventually
\* reaches completed or failed.
C7_EveryAcceptedTaskFinishes ==
    \A t \in TaskIds :
        Created(t) ~> (Created(t) /\ tasks[t].status \in Terminal)

\* C10: the only status changes are pending -> running, running -> completed
\* and running -> failed, and a record starts pending.
C10_StatusTransitions ==
    [][\A t \in DOMAIN tasks' :
          IF t \in DOMAIN tasks
          THEN tasks'[t].status # tasks[t].status =>
                  <<tasks[t].status, tasks'[t].status>> \in
                      {<<"pending", "running">>, <<"running", "completed">>,
                       <<"running", "failed">>}
          ELSE tasks'[t].status = "pending"]_vars

----------------------------------------------------------------------------
\* The BrowserSession objects built so far.
BuiltSessions == {t \in TaskIds : sessions[t] # "none"}

\* C5: in server.py at most one browser session and one LLM client are ever
\* built, however the executors interleave; the global, once set, names that
\* one object, and every reference get_browser()/get_llm() returned is a
\* reference to it.
C5_Singletons ==
    variant = "server" =>
        /\ Cardinality(BuiltSessions) <= 1
        /\ Cardinality(llms) <= 1
        /\ BuiltSessions # {} => BuiltSessions = {browser_session}
        /\ llms # {} => llms = {llm_model}
        /\ \A t \in TaskIds :
              /\ browser[t] # 0 => browser[t] = browser_session
              /\ llm[t] # 0 => llm[t] = llm_model

\* Two executors in the cold start: one is still suspended in start(), the
\* other already got the session and the client and runs its agent.
C5_Witness ==
    /\ variant = "server"
    /\ \E t1, t2 \in TaskIds :
          /\ pc[t1] = "browser_start"
          /\ InAgentRun(t2)
          /\ browser[t2] = browser_session
          /\ llm[t2] = llm_model
          /\ llm_model # 0

\* C8: a submission returns an identifier that was no key of the store,
\* inserts exactly one record, pending, answers "started" and runs no
\* executor step; a status query answered before any executor step of that
\* task reports pending or running.
C8_CreateStep ==
    (resp'.op = "create_task" /\ resp' # resp) =>
        LET id == resp'.task_id IN
        /\ id \notin DOMAIN tasks
        /\ id \notin issued
        /\ issued' = issued \cup {id}
        /\ DOMAIN tasks' = DOMAIN tasks \cup {id}
        /\ tasks'[id] = [status |-> "pending", result |-> None, error |-> None]
        /\ \A j \in DOMAIN tasks : tasks'[j] = tasks[j]
        /\ resp'.status = "started"
        /\ pc' = [pc EXCEPT ![id] = "queued"]
        /\ UNCHANGED <<loop, execvars>>

C8_ImmediateStatus ==
    (/\ resp.op = "get_task"
     /\ resp.code = 200
     /\ pc[resp.task_id] \in {"queued", "start", "lost"}) =>
        resp.status \in {"pending", "running"}

C8_Submission == [][C8_CreateStep]_vars /\ []C8_ImmediateStatus

\* A second submission was made and queried before its executor ran.
C8_Witness ==
    /\ resp.op = "get_task"
    /\ resp.code = 200
    /\ resp.task_id = 2
    /\ pc[2] = "queued"
    /\ resp.status = "pending"

\* C9: get_task answers 404 "Task not found" exactly for the identifiers no
\* submission returned, and leaves the store as it was.
C9_Answer ==
    resp.op = "get_task" =>
        /\ resp.task_id \notin issued =>
              resp.code = 404 /\ resp.status = "Task not found"
        /\ resp.task_id \in issued => resp.code = 200

C9_QueryStep ==
    (resp'.op = "get_task" /\ resp' # resp) =>
        UNCHANGED <<tasks, task_text, issued, pc, loop, execvars>>

C9_NotFound == []C9_Answer /\ [][C9_QueryStep]_vars

\* An unknown identifier is queried while the store holds a record.
C9_Witness ==
    /\ resp.op = "get_task"
    /\ resp.code = 404
    /\ issued # {}
    /\ resp.task_id \notin issued

----------------------------------------------------------------------------
\* C11: a status query never returns a partially written record: what
\* get_task returns is the record before the terminal update (pending or
\* running, result and error null) or after it (completed with its result,
\* failed with its error).
C11_NoPartialRecordObserved ==
    (resp.op = "get_task" /\ resp.code = 200) =>
        \/ /\ resp.status \in {"pending", "running"}
           /\ resp.result = None
           /\ resp.error = None
        \/ resp.status = "completed" /\ resp.result # None
        \/ resp.status = "failed" /\ resp.error # None

\* The instruction the executor of t hands to Agent(task=...): app.py reads
\* tasks[task_id]["task"], server.py its argument task_text.
AgentTask(t) == task_text[t]

\* C12: the instruction the executor passes to the agent is the request's
\* custom_task whenever the request carries one (any string), the built-in
\* default text otherwise, and it does not change after the submission.
C12_TextAtSubmission ==
    resp.op = "create_task" =>
        AgentTask(resp.task_id) =
            IF resp.custom_task # None THEN resp.custom_task[1] ELSE default_task

C12_TextKept == \A t \in DOMAIN tasks : AgentTask(t)' = AgentTask(t)

C12_InstructionText == []C12_TextAtSubmission /\ [][C12_TextKept]_vars

\* C12 as amended: the instruction is the request's custom_task whenever it
\* is present and not the empty string, the built-in default text when it is
\* absent or empty, and it does not change after the submission.
C12_TextAtSubmissionNonEmpty ==
    resp.op = "create_task" =>
        AgentTask(resp.task_id) =
            IF resp.custom_task \in {None, Some("")}
            THEN default_task
            ELSE resp.custom_task[1]

C12_InstructionTextNonEmpty ==
    []C12_TextAtSubmissionNonEmpty /\ [][C12_TextKept]_vars

\* One agent runs on a custom text while another runs on the default text.
C12_Witness ==
    \E t1, t2 \in TaskIds :
        /\ InAgentRun(t1)
        /\ AgentTask(t1) = "go to example.com"
        /\ InAgentRun(t2)
        /\ AgentTask(t2) = default_task

----------------------------------------------------------------------------
\* C13: list_tasks returns exactly the identifiers the submissions returned,
\* with count the number of submissions, and the set of keys of the store
\* only grows.
C13_Listing ==
    resp.op = "list_tasks" =>
        /\ resp.tasks = issued
        /\ resp.count = Cardinality(issued)

C13_KeysOnlyGrow == DOMAIN tasks \subseteq DOMAIN tasks'

C13_ListAll == []C13_Listing /\ [][C13_KeysOnlyGrow]_vars

\* Every identifier of the model was issued, one execution failed and has
\* returned, and the listing still shows them all.
C13_Witness ==
    /\ resp.op = "list_tasks"
    /\ resp.count = MaxTasks
    /\ resp.tasks = TaskIds
    /\ \E t \in TaskIds : Finished(t) /\ tasks[t].status = "failed"

----------------------------------------------------------------------------
\* The shared browser session of server.py has been started successfully.
BrowserStarted ==
    IF browser_session = 0 THEN FALSE ELSE sessions[browser_session] = "started"

\* C19: in server.py GET /health reports browser "ready" exactly when the
\* shared session has been started successfully and "not_started" otherwise,
\* and active_tasks is the number of records whose status is running.
C19_Health ==
    (variant = "server" /\ resp.op = "health") =>
        /\ resp.browser = (IF BrowserStarted THEN "ready" ELSE "not_started")
        /\ resp.count = Cardinality({t \in DOMAIN tasks : tasks[t].status = "running"})

----------------------------------------------------------------------------
\* C14: a step of the executor of one task changes no record but that
\* task's: a record changes only in a step of its own executor, and a step of
\* an executor leaves every other record as it was.
C14_OwnRecordOnly ==
    [][/\ \A t \in DOMAIN tasks : tasks'[t] # tasks[t] => pc'[t] # pc[t]
       /\ \A u \in TaskIds :
             (pc[u] # "none" /\ pc'[u] # pc[u]) =>
                 \A t \in DOMAIN tasks \ {u} : tasks'[t] = tasks[t]]_vars

\* One execution has failed and returned while another task's agent runs.
C14_Witness ==
    \E t, u \in TaskIds :
        /\ t # u
        /\ Finished(t)
        /\ tasks[t].status = "failed"
        /\ InAgentRun(u)
        /\ tasks[u] = [status |-> "running", result |-> None, error |-> None]

----------------------------------------------------------------------------
\* The executor called with an identifier that has no record.  No handler
\* does that; the specification SpecDirect adds the call to the program's own
\* steps.  tasks[task_id] raises KeyError at the first statement of the try
\* block; the except clause catches it, and its own first statement,
\* tasks[task_id]["status"] = "failed", raises KeyError again, which leaves
\* the coroutine.  There is no await on the way.

\* server.py lines 169-171, 193-195
run_task_unknown(t) ==
    /\ variant = "server"
    /\ t \notin DOMAIN tasks
    /\ pc[t] = "none"
    /\ loop = 0
    /\ pc' = [pc EXCEPT ![t] = "KeyError"]
    /\ UNCHANGED <<variant, tasks, task_text, loop, issued, execvars>>
    /\ Delivered

\* app.py lines 116-118, 157-159
async_run_task_unknown(t) ==
    /\ variant = "app"
    /\ t \notin DOMAIN tasks
    /\ pc[t] = "none"
    /\ loop = 0
    /\ pc' = [pc EXCEPT ![t] = "KeyError"]
    /\ UNCHANGED <<variant, tasks, task_text, loop, issued, execvars>>
    /\ Delivered

NextDirect ==
    \/ Next
    \/ \E t \in TaskIds : run_task_unknown(t)
    \/ \E t \in TaskIds : async_run_task_unknown(t)

SpecDirect == Init /\ [][NextDirect]_vars

\* C15: the executor called with an identifier that has no record raises no
\* exception, creates no record and leaves the store and the shared
\* resources as they were.
C15_NoException == \A t \in TaskIds : pc[t] # "KeyError"

C15_NothingChanged ==
    \A t \in TaskIds :
        (t \notin DOMAIN tasks /\ pc[t] = "none" /\ pc'[t] \notin {"none", "queued"}) =>
            UNCHANGED <<tasks, execvars>>

C15_UnknownIdAbortsSilently == []C15_NoException /\ [][C15_NothingChanged]_vars

----------------------------------------------------------------------------
\* The agent run of t has returned normally.
AgentReturned(t) == agent_result[t] # "unset"

\* C16: when the agent run returned normally the record ends completed with
\* error null and result {success: true, usage: <the run's usage metrics when
\* the result carries them, null otherwise>}.
C16_SuccessIsRecorded ==
    \A t \in DOMAIN tasks :
        (Finished(t) /\ AgentReturned(t)) =>
            /\ tasks[t].status = "completed"
            /\ tasks[t].error = None
            /\ tasks[t].result =
                  Some([success |-> TRUE,
                        usage |-> IF agent_result[t] \in {"Usage", "BadUsage"}
                                  THEN Some("metrics")
                                  ELSE None])

----------------------------------------------------------------------------
\* C17: in server.py get_browser() hands out only a session whose start()
\* has completed successfully: the session an executor holds, and the one its
\* agent runs on, is started - not still starting, not failed.
C17_OnlyStartedSessionsHandedOut ==
    variant = "server" =>
        \A t \in TaskIds :
            browser[t] # 0 => sessions[browser[t]] = "started"

\* C18: in app.py every browser session a task started is closed by the time
\* its executor has finished, on the success path and on every failure path.
C18_StartedSessionsAreClosed ==
    variant = "app" =>
        \A t \in TaskIds :
            (Finished(t) /\ browser[t] # 0) => sessions[browser[t]] # "started"

====
